---------------------------- MODULE Spec2Model ----------------------------
(***************************************************************************)
(* Model of scripts/compare_bundles.py: the rule-based, tiered bundle      *)
(* comparison engine (class BundleComparator).                             *)
(*                                                                         *)
(* Representation.                                                         *)
(*  - A string is a sequence of one-character strings, so that fnmatch,    *)
(*    Path.match, Path.suffix and the sort order of paths are computed     *)
(*    character by character as the library computes them.                 *)
(*  - A relative path (pathlib.Path) is the sequence of its components;    *)
(*    str(path) joins them with "/".                                       *)
(*  - A JSON value is a tagged record [t, v]; a JSON object's v is the     *)
(*    sequence of its members in document order.                           *)
(*  - A file's content is a record: zero bytes, text that is not JSON,     *)
(*    bytes that are not UTF-8, or one of two byte-different               *)
(*    serialisations of a JSON value.                                      *)
(*  - A Python expression that can raise yields, when it raises, str(e)  *)
(*    of the exception instead of a value; booleans that come out of such  *)
(*    expressions are the strings "True" and "False".                      *)
(***************************************************************************)
EXTENDS Integers, Sequences, FiniteSets, TLC

VARIABLES
    rules,      \* self.rules, loaded by __init__
    results,    \* self.results
    baseline,   \* extracted baseline tree: path -> content
    current,    \* extracted current tree: path -> content
    todo,       \* sorted(common_files) not yet compared
    pc,         \* position of the caller: "idle", "comparing", "done"
    ret,        \* value returned by the last finished compare call
    calls,      \* compare calls started on this comparator
    inp,        \* argument of a function applied on its own
    out         \* its result

vars == <<rules, results, baseline, current, todo, pc, ret, calls, inp, out>>

(***************************************************************************)
(* Characters and strings                                                  *)
(***************************************************************************)

\* The printable ASCII characters, the backquote left out, in increasing
\* code point order.
Chars == <<" ", "!", "\"", "#", "$", "%", "&", "'", "(", ")", "*", "+",
           ",", "-", ".", "/", "0", "1", "2", "3", "4", "5", "6", "7", "8",
           "9", ":", ";", "<", "=", ">", "?", "@", "A", "B", "C", "D", "E",
           "F", "G", "H", "I", "J", "K", "L", "M", "N", "O", "P", "Q", "R",
           "S", "T", "U", "V", "W", "X", "Y", "Z", "[", "\\", "]", "^",
           "_", "a", "b", "c", "d", "e", "f", "g", "h", "i", "j", "k",
           "l", "m", "n", "o", "p", "q", "r", "s", "t", "u", "v", "w", "x",
           "y", "z", "{", "|", "}", "~">>

\* ord(ch) of every character of Chars: " " is 32, "_" 95, "a" 97.
CodePoints ==
    [ch \in {Chars[i] : i \in 1..Len(Chars)} |->
        LET i == CHOOSE k \in 1..Len(Chars) : Chars[k] = ch
        IN  IF i <= 64 THEN i + 31 ELSE i + 32]

Ord(ch) == CodePoints[ch]

\* Python's str < str: the first differing character decides, a proper
\* prefix is smaller.
RECURSIVE StrLess(_, _)
StrLess(s, u) ==
    IF u = <<>> THEN FALSE
    ELSE IF s = <<>> THEN TRUE
    ELSE IF Head(s) = Head(u) THEN StrLess(Tail(s), Tail(u))
    ELSE Ord(Head(s)) < Ord(Head(u))

\* Python's list < list on lists of strings (pathlib compares paths by
\* their component lists).
RECURSIVE PartsLess(_, _)
PartsLess(p, q) ==
    IF q = <<>> THEN FALSE
    ELSE IF p = <<>> THEN TRUE
    ELSE IF Head(p) = Head(q) THEN PartsLess(Tail(p), Tail(q))
    ELSE StrLess(Head(p), Head(q))

\* The index of the "]" that closes the class opened by the "[" at p[j],
\* 0 when there is none: a "!" and then a "]" right after the "[" do not
\* close it.
ClassEnd(p, j) ==
    LET n  == Len(p)
        j1 == IF j + 1 <= n /\ p[j + 1] = "!" THEN j + 2 ELSE j + 1
        j2 == IF j1 <= n /\ p[j1] = "]" THEN j1 + 1 ELSE j1
        closing == {k \in j2..n : p[k] = "]"}
    IN  IF closing = {} THEN 0
        ELSE CHOOSE k \in closing : \A m \in closing : k <= m

\* The chunks a class body is cut into at the hyphens that make ranges:
\* the search for the next hyphen starts at k, the chunk being cut starts at
\* start.
RECURSIVE SplitRanges(_, _, _, _)
SplitRanges(stuff, start, k, chunks) ==
    LET hyphens == {h \in k..Len(stuff) : stuff[h] = "-"}
        h       == CHOOSE x \in hyphens : \A y \in hyphens : x <= y
        chunk   == SubSeq(stuff, start, Len(stuff))
    IN  IF hyphens # {}
        THEN SplitRanges(stuff, h + 1, h + 3,
                         Append(chunks, SubSeq(stuff, start, h - 1)))
        ELSE IF chunk # <<>> THEN Append(chunks, chunk)
        ELSE [chunks EXCEPT ![Len(chunks)] = Append(@, "-")]

\* The ranges whose first character is above the last are taken out, from
\* the m-th chunk down.
RECURSIVE RemoveEmptyRanges(_, _)
RemoveEmptyRanges(chunks, m) ==
    IF m < 2 THEN chunks
    ELSE LET prev == chunks[m - 1]
             cur  == chunks[m]
         IN  IF Ord(prev[Len(prev)]) > Ord(cur[1])
             THEN RemoveEmptyRanges(
                      SubSeq(chunks, 1, m - 2)
                      \o <<SubSeq(prev, 1, Len(prev) - 1) \o Tail(cur)>>
                      \o SubSeq(chunks, m + 1, Len(chunks)),
                      m - 1)
             ELSE RemoveEmptyRanges(chunks, m - 1)

\* The character ch is matched by the class with body stuff ("[stuff]"): a
\* leading "!" negates, a hyphen between two characters makes a range, every
\* other character stands for itself.
ClassMatches(ch, stuff) ==
    IF \A h \in 1..Len(stuff) : stuff[h] # "-"
    THEN LET neg  == stuff[1] = "!"
             body == IF neg THEN Tail(stuff) ELSE stuff
         IN  (\E h \in 1..Len(body) : body[h] = ch) # neg
    ELSE LET split  == SplitRanges(stuff, 1,
                                   IF stuff[1] = "!" THEN 3 ELSE 2, <<>>)
             chunks == RemoveEmptyRanges(split, Len(split))
             first  == chunks[1]
             neg    == first # <<>> /\ first[1] = "!"
             lits   == [c \in 1..Len(chunks) |->
                           IF c = 1 /\ neg THEN Tail(first) ELSE chunks[c]]
             inLiteral == \E c \in 1..Len(chunks) :
                              \E h \in 1..Len(lits[c]) : lits[c][h] = ch
             inRange   == \E c \in 1..(Len(chunks) - 1) :
                              /\ Ord(chunks[c][Len(chunks[c])]) <= Ord(ch)
                              /\ Ord(ch) <= Ord(chunks[c + 1][1])
         IN  IF Len(chunks) = 1 /\ first = <<>> THEN FALSE
             ELSE IF Len(chunks) = 1 /\ first = <<"!">> THEN TRUE
             ELSE (inLiteral \/ inRange) # neg

\* fnmatch.fnmatchcase(s, p) from position i of s and j of p: "*" matches
\* any run of characters (the separator included), "?" any one character,
\* "[seq]" and "[!seq]" one character in or not in seq, a "[" that no "]"
\* closes and any other character itself.
RECURSIVE GlobFrom(_, _, _, _)
GlobFrom(s, i, p, j) ==
    IF j > Len(p) THEN i > Len(s)
    ELSE IF p[j] = "*"
         THEN GlobFrom(s, i, p, j + 1)
              \/ (i <= Len(s) /\ GlobFrom(s, i + 1, p, j))
    ELSE IF p[j] = "?"
         THEN i <= Len(s) /\ GlobFrom(s, i + 1, p, j + 1)
    ELSE IF p[j] = "[" /\ ClassEnd(p, j) # 0
         THEN /\ i <= Len(s)
              /\ ClassMatches(s[i], SubSeq(p, j + 1, ClassEnd(p, j) - 1))
              /\ GlobFrom(s, i + 1, p, ClassEnd(p, j) + 1)
    ELSE i <= Len(s) /\ s[i] = p[j] /\ GlobFrom(s, i + 1, p, j + 1)

fnmatch(name, pat) == GlobFrom(name, 1, pat, 1)

(***************************************************************************)
(* Paths                                                                   *)
(***************************************************************************)

\* str(path): the components joined by "/".
RECURSIVE PathStr(_)
PathStr(path) ==
    IF Len(path) = 1 THEN path[1]
    ELSE path[1] \o <<"/">> \o PathStr(Tail(path))

\* path.name: the last component.
PathName(path) == path[Len(path)]

\* Index of the last "." of a string, 0 when there is none.
RECURSIVE LastDot(_, _)
LastDot(s, i) ==
    IF i = 0 THEN 0
    ELSE IF s[i] = "." THEN i
    ELSE LastDot(s, i - 1)

\* path.suffix: the name from its last "." on, unless that "." is the first
\* or the last character of the name.
PathSuffix(path) ==
    LET name == PathName(path)
        i    == LastDot(name, Len(name))
    IN  IF 0 < i - 1 /\ i < Len(name)
        THEN SubSeq(name, i, Len(name))
        ELSE <<>>

\* path.match(pattern) for a pattern of one component: the name is matched.
PathMatch(path, pattern) == fnmatch(PathName(path), pattern)

\* sorted over the path strings in place of the paths.
RECURSIVE SortedPathsByString(_)
SortedPathsByString(S) ==
    IF S = {} THEN <<>>
    ELSE LET least == CHOOSE p \in S :
                          \A q \in S \ {p} : StrLess(PathStr(p), PathStr(q))
         IN  <<least>> \o SortedPathsByString(S \ {least})

\* sorted(paths): the paths in increasing order, as a sequence.
RECURSIVE SortedPaths(_)
SortedPaths(S) ==
    IF S = {} THEN <<>>
    ELSE LET least == CHOOSE p \in S : \A q \in S \ {p} : PartsLess(p, q)
         IN  <<least>> \o SortedPaths(S \ {least})

(***************************************************************************)
(* JSON values and the Python operations the comparators apply to them     *)
(***************************************************************************)

JNull    == [t |-> "null", v |-> "null"]
JBool(b) == [t |-> "bool", v |-> b]
JNum(n)  == [t |-> "num",  v |-> n]
JStr(s)  == [t |-> "str",  v |-> s]
\* A list: the sequence of its items.
JList(items) == [t |-> "list", v |-> items]
\* An object: the sequence of its members [k, v] in document order, the
\* keys distinct (json.loads keeps the order and one member per key).
JObj(members) == [t |-> "obj", v |-> members]

\* The outcome of an expression that raised: v is str(e) of the exception
\* (AttributeError, TypeError, KeyError ...).
Raise(message) == [t |-> "raise", v |-> message]

IsRaise(x) == x.t = "raise"

\* The outcome of a call that returns a bool is "True", "False", or, when
\* the call raised, str(e) of the exception.
IsError(outcome) == outcome \notin {"True", "False"}

\* type(x).__name__ of a decoded JSON value (every number of the model is
\* an int).
TypeName(x) ==
    CASE x.t = "null" -> "NoneType"
      [] x.t = "bool" -> "bool"
      [] x.t = "num"  -> "int"
      [] x.t = "str"  -> "str"
      [] x.t = "list" -> "list"
      [] x.t = "obj"  -> "dict"

\* str(e) of the AttributeError of x.attr.
NoAttribute(x, attr) ==
    "'" \o TypeName(x) \o "' object has no attribute '" \o attr \o "'"

Keys(d) == {d.v[i].k : i \in 1..Len(d.v)}

Member(d, key) == d.v[CHOOSE i \in 1..Len(d.v) : d.v[i].k = key].v

\* bool(x).
Truthy(x) ==
    CASE x.t = "null" -> FALSE
      [] x.t = "bool" -> x.v
      [] x.t = "num"  -> x.v # 0
      [] x.t = "str"  -> x.v # ""
      [] x.t = "list" -> Len(x.v) > 0
      [] x.t = "obj"  -> Len(x.v) > 0

\* The number a bool or number compares as (True == 1, False == 0).
AsNumber(x) == IF x.t = "bool" THEN (IF x.v THEN 1 ELSE 0) ELSE x.v

\* x == y.
RECURSIVE PyEq(_, _)
PyEq(x, y) ==
    IF x.t \in {"bool", "num"} /\ y.t \in {"bool", "num"}
        THEN AsNumber(x) = AsNumber(y)
    ELSE IF x.t # y.t THEN FALSE
    ELSE IF x.t = "null" THEN TRUE
    ELSE IF x.t = "str" THEN x.v = y.v
    ELSE IF x.t = "list"
        THEN Len(x.v) = Len(y.v)
             /\ \A i \in 1..Len(x.v) : PyEq(x.v[i], y.v[i])
    ELSE Keys(x) = Keys(y)
         /\ \A key \in Keys(x) : PyEq(Member(x, key), Member(y, key))

\* d.get(key, default); only a dict has get. An operand that raised is
\* passed on.
PyGet(d, key, default) ==
    IF IsRaise(d) THEN d
    ELSE IF d.t # "obj" THEN Raise(NoAttribute(d, "get"))
    ELSE IF key \in Keys(d) THEN Member(d, key)
    ELSE default

\* d[key] for a string key: a KeyError at a dict without the key, a
\* TypeError at every other value.
PyIndex(d, key) ==
    CASE IsRaise(d)   -> d
      [] d.t = "obj"  -> IF key \in Keys(d) THEN Member(d, key)
                         ELSE Raise("'" \o key \o "'")
      [] d.t = "list" ->
             Raise("list indices must be integers or slices, not str")
      [] d.t = "str"  -> Raise("string indices must be integers, not 'str'")
      [] OTHER        ->
             Raise("'" \o TypeName(d) \o "' object is not subscriptable")

\* needle in hay, for two strings: needle is a part of hay.
Contains(hay, needle) ==
    \E i \in 1..(Len(hay) + 1) :
        /\ i + Len(needle) - 1 <= Len(hay)
        /\ SubSeq(hay, i, i + Len(needle) - 1) = needle

\* key in x, for a string key: a key of a dict, an item of a list, a part
\* of a string; None, a bool and a number are not iterable.
PyIn(key, x) ==
    CASE IsRaise(x)   -> x.v
      [] x.t = "obj"  -> IF key \in Keys(x) THEN "True" ELSE "False"
      [] x.t = "list" -> IF \E i \in 1..Len(x.v) : PyEq(x.v[i], JStr(key))
                         THEN "True" ELSE "False"
      [] x.t = "str"  -> IF Contains(x.v, key) THEN "True" ELSE "False"
      [] OTHER        ->
             "argument of type '" \o TypeName(x) \o "' is not iterable"

\* len(x) == 0; a number, a bool and None have no len.
PyLenIsZero(x) ==
    CASE IsRaise(x)              -> x.v
      [] x.t \in {"list", "obj"} -> IF Len(x.v) = 0 THEN "True" ELSE "False"
      [] x.t = "str"             -> IF x.v = "" THEN "True" ELSE "False"
      [] OTHER                   ->
             "object of type '" \o TypeName(x) \o "' has no len()"

\* x.keys(); only a dict has keys.
PyKeys(x) ==
    IF IsRaise(x) THEN x
    ELSE IF x.t # "obj" THEN Raise(NoAttribute(x, "keys"))
    ELSE x

\* The dict key a value is stored under: True and 1, False and 0 are one key.
DictKey(x) == IF x.t = "bool" THEN JNum(AsNumber(x)) ELSE x

Hashable(x) == x.t \notin {"list", "obj"}

(***************************************************************************)
(* The structural comparators                                              *)
(***************************************************************************)

\* compare_database_connection that reads an absent isConnected as None.
compare_database_connection_no_default(b, c) ==
    LET b_connected == PyGet(b, "isConnected", JNull)
        c_connected == PyGet(c, "isConnected", JNull)
    IN  IF IsRaise(b_connected) THEN b_connected.v
        ELSE IF IsRaise(c_connected) THEN c_connected.v
        ELSE IF ~PyEq(b_connected, c_connected) THEN "False"
        ELSE "True"

compare_database_connection(b, c) ==
    LET b_connected == PyGet(b, "isConnected", JBool(FALSE))
        c_connected == PyGet(c, "isConnected", JBool(FALSE))
    IN  IF IsRaise(b_connected) THEN b_connected.v
        ELSE IF IsRaise(c_connected) THEN c_connected.v
        ELSE IF ~PyEq(b_connected, c_connected) THEN "False"
        ELSE "True"

\* compare_dns_structure without the check of the non-resolvable domain.
compare_dns_structure_resolving(b, c) ==
    LET hasQuery == PyIn("query", c)
        query    == PyIndex(c, "query")
        hasKube  == PyIn("kubernetes", query)
        kube     == PyIndex(query, "kubernetes")
        address  == PyGet(kube, "address", JNull)
        service  == PyGet(c, "kubeDNSService", JNull)
        pods     == PyGet(c, "kubeDNSPods", JNull)
        noPods   == PyLenIsZero(PyIndex(c, "kubeDNSPods"))
    IN  IF hasQuery # "True" THEN hasQuery
        ELSE IF hasKube # "True" THEN hasKube
        ELSE IF IsRaise(address) THEN address.v
        ELSE IF ~Truthy(address) THEN "False"
        ELSE IF ~Truthy(service) THEN "False"
        ELSE IF ~Truthy(pods) THEN "False"
        ELSE IF IsError(noPods) THEN noPods
        ELSE IF noPods = "True" THEN "False"
        ELSE "True"

compare_dns_structure(b, c) ==
    LET hasQuery == PyIn("query", c)
        query    == PyIndex(c, "query")
        hasKube  == PyIn("kubernetes", query)
        kube     == PyIndex(query, "kubernetes")
        address  == PyGet(kube, "address", JNull)
        service  == PyGet(c, "kubeDNSService", JNull)
        pods     == PyGet(c, "kubeDNSPods", JNull)
        noPods   == PyLenIsZero(PyIndex(c, "kubeDNSPods"))
        domain   == PyGet(PyGet(c, "query", JObj(<<>>)),
                          "nonResolvableDomain", JObj(<<>>))
        resolved == PyGet(domain, "address", JNull)
    IN  \* "query" not in current: the verdict when absent, str(e) when
        \* current is not iterable
        IF hasQuery # "True" THEN hasQuery
        \* "kubernetes" not in current["query"]
        ELSE IF hasKube # "True" THEN hasKube
        \* current["query"]["kubernetes"].get("address")
        ELSE IF IsRaise(address) THEN address.v
        ELSE IF ~Truthy(address) THEN "False"
        ELSE IF ~Truthy(service) THEN "False"
        ELSE IF ~Truthy(pods) THEN "False"
        ELSE IF IsError(noPods) THEN noPods
        ELSE IF noPods = "True" THEN "False"
        ELSE IF IsRaise(resolved) THEN resolved.v
        ELSE IF Truthy(resolved) THEN "False"
        ELSE "True"

\* The loop over baseline_images from its i-th member on.
RECURSIVE ExistsLoop(_, _, _)
ExistsLoop(baseline_images, current_images, i) ==
    IF i > Len(baseline_images.v) THEN "True"
    ELSE LET image_name == baseline_images.v[i].k
             b_exists == PyGet(Member(baseline_images, image_name),
                               "exists", JBool(FALSE))
             c_exists == PyGet(Member(current_images, image_name),
                               "exists", JBool(FALSE))
         IN  IF IsRaise(b_exists) THEN b_exists.v
             ELSE IF IsRaise(c_exists) THEN c_exists.v
             ELSE IF ~PyEq(b_exists, c_exists) THEN "False"
             ELSE ExistsLoop(baseline_images, current_images, i + 1)

\* compare_registry_exists that compares the image names as lists.
compare_registry_exists_ordered(b, c) ==
    LET baseline_images == PyGet(b, "images", JObj(<<>>))
        current_images  == PyGet(c, "images", JObj(<<>>))
        names(images)   == [i \in 1..Len(images.v) |-> images.v[i].k]
    IN  IF IsRaise(baseline_images) THEN baseline_images.v
        ELSE IF IsRaise(current_images) THEN current_images.v
        ELSE IF IsRaise(PyKeys(baseline_images))
            THEN PyKeys(baseline_images).v
        ELSE IF IsRaise(PyKeys(current_images))
            THEN PyKeys(current_images).v
        ELSE IF names(baseline_images) # names(current_images) THEN "False"
        ELSE ExistsLoop(baseline_images, current_images, 1)

compare_registry_exists(b, c) ==
    LET baseline_images == PyGet(b, "images", JObj(<<>>))
        current_images  == PyGet(c, "images", JObj(<<>>))
    IN  IF IsRaise(baseline_images) THEN baseline_images.v
        ELSE IF IsRaise(current_images) THEN current_images.v
        ELSE IF IsRaise(PyKeys(baseline_images))
            THEN PyKeys(baseline_images).v
        ELSE IF IsRaise(PyKeys(current_images))
            THEN PyKeys(current_images).v
        ELSE IF Keys(baseline_images) # Keys(current_images) THEN "False"
        ELSE ExistsLoop(baseline_images, current_images, 1)

compare_http_status(b, c) ==
    LET b_status == PyGet(PyGet(b, "response", JObj(<<>>)), "status", JNum(0))
        c_status == PyGet(PyGet(c, "response", JObj(<<>>)), "status", JNum(0))
    IN  IF IsRaise(b_status) THEN b_status.v
        ELSE IF IsRaise(c_status) THEN c_status.v
        ELSE IF ~PyEq(b_status, c_status) THEN "False"
        ELSE "True"

compare_cluster_version(b, c) ==
    LET b_info == PyGet(b, "info", JObj(<<>>))
        c_info == PyGet(c, "info", JObj(<<>>))
        b_major == PyGet(b_info, "major", JNull)
        c_major == PyGet(c_info, "major", JNull)
        b_minor == PyGet(b_info, "minor", JNull)
        c_minor == PyGet(c_info, "minor", JNull)
    IN  IF IsRaise(b_info) THEN b_info.v
        ELSE IF IsRaise(c_info) THEN c_info.v
        ELSE IF IsRaise(b_major) THEN b_major.v
        ELSE IF IsRaise(c_major) THEN c_major.v
        ELSE IF ~PyEq(b_major, c_major) THEN "False"
        ELSE IF ~PyEq(b_minor, c_minor) THEN "False"
        ELSE "True"

\* {item.get("name"): item.get("severity") for item in items if "name" in
\* item}, from the i-th item on, added to the mapping acc; [raised] with
\* str(e) in [error] when an item is not iterable, has no get, or its name
\* is unhashable.
RECURSIVE NameSeverity(_, _, _)
NameSeverity(items, i, acc) ==
    IF i > Len(items) THEN [raised |-> FALSE, error |-> "", map |-> acc]
    ELSE LET item == items[i]
             has  == PyIn("name", item)
             name == PyGet(item, "name", JNull)
             severity == PyGet(item, "severity", JNull)
             key  == DictKey(name)
         IN  IF IsError(has)
                 THEN [raised |-> TRUE, error |-> has, map |-> acc]
             ELSE IF has = "False" THEN NameSeverity(items, i + 1, acc)
             ELSE IF IsRaise(name)
                 THEN [raised |-> TRUE, error |-> name.v, map |-> acc]
             ELSE IF ~Hashable(name)
                 THEN [raised |-> TRUE,
                       error |-> "unhashable type: '" \o TypeName(name) \o "'",
                       map |-> acc]
             ELSE NameSeverity(items, i + 1,
                     [n \in DOMAIN acc \cup {key} |->
                         IF n = key THEN severity ELSE acc[n]])

\* The analyzers whose severity changed to or from "error" or "warn".
SignificantChanges(baseline_results, current_results) ==
    {name \in DOMAIN baseline_results :
        /\ ~PyEq(baseline_results[name], current_results[name])
        /\ \/ \E s \in {"error", "warn"} : PyEq(baseline_results[name], JStr(s))
           \/ \E s \in {"error", "warn"} : PyEq(current_results[name], JStr(s))}

\* compare_analysis_results with the disabled return on a significant
\* severity change enabled.
compare_analysis_results_strict(b, c) ==
    IF b.t # "list" \/ c.t # "list" THEN "False"
    ELSE LET baseline_results == NameSeverity(b.v, 1, <<>>)
             current_results  == NameSeverity(c.v, 1, <<>>)
         IN  IF baseline_results.raised THEN baseline_results.error
             ELSE IF current_results.raised THEN current_results.error
             ELSE IF DOMAIN baseline_results.map # DOMAIN current_results.map
                 THEN "False"
             ELSE IF SignificantChanges(baseline_results.map,
                                        current_results.map) # {}
                 THEN "False"
             ELSE "True"

compare_analysis_results(b, c) ==
    IF b.t # "list" \/ c.t # "list" THEN "False"
    ELSE LET baseline_results == NameSeverity(b.v, 1, <<>>)
             current_results  == NameSeverity(c.v, 1, <<>>)
         IN  IF baseline_results.raised THEN baseline_results.error
             ELSE IF current_results.raised THEN current_results.error
             ELSE IF DOMAIN baseline_results.map # DOMAIN current_results.map
                 THEN "False"
             \* significant changes are printed; they do not fail the file
             ELSE "True"

(***************************************************************************)
(* File contents                                                           *)
(***************************************************************************)

\* A file of zero bytes.
Empty == [kind |-> "empty"]
\* A non-empty UTF-8 text that is not a JSON document; id tells texts apart.
Text(id) == [kind |-> "text", id |-> id]
\* Non-empty bytes that are not valid UTF-8: the two bytes FF FE.
Binary == [kind |-> "binary"]
\* The JSON document doc written in layout fmt ("compact" or "indented"):
\* two layouts of one document are different bytes.
Json(doc, fmt) == [kind |-> "json", doc |-> doc, fmt |-> fmt]

\* path.stat().st_size == 0.
SizeIsZero(content) == content.kind = "empty"

\* str(e) of the UnicodeDecodeError of read_text on the bytes of Binary.
DecodeError ==
    "'utf-8' codec can't decode byte 0xff in position 0: invalid start byte"

\* json.loads(path.read_text()): the document, "bad" on a JSONDecodeError,
\* "raise" when read_text cannot decode the bytes (UnicodeDecodeError).
LoadJson(content) ==
    CASE content.kind = "json"   -> [st |-> "ok", doc |-> content.doc]
      [] content.kind = "binary" -> [st |-> "raise", error |-> DecodeError]
      [] OTHER                   -> [st |-> "bad"]

(***************************************************************************)
(* Rules and the classification of a path                                  *)
(***************************************************************************)

\* A rule set: exact_match, a sequence of patterns, and structural_compare,
\* the sequence of the mapping's [pattern, comparator] entries in declared
\* order (a missing key is the empty sequence).
RuleSet(exact_match, structural_compare) ==
    [exact_match |-> exact_match, structural_compare |-> structural_compare]

RECURSIVE ExactLoop(_, _, _)
ExactLoop(patterns, i, rel_path) ==
    IF i > Len(patterns) THEN FALSE
    ELSE IF fnmatch(rel_path, patterns[i]) \/ rel_path = patterns[i] THEN TRUE
    ELSE ExactLoop(patterns, i + 1, rel_path)

\* Index of the first structural_compare entry whose pattern matches, 0 when
\* none does.
RECURSIVE StructuralLoop(_, _, _)
StructuralLoop(entries, i, rel_path) ==
    IF i > Len(entries) THEN 0
    ELSE IF fnmatch(rel_path, entries[i].pattern) THEN i
    ELSE StructuralLoop(entries, i + 1, rel_path)

\* get_comparison_mode with the structural tier tried before the exact one.
get_comparison_mode_structural_first(rs, rel_path) ==
    IF StructuralLoop(rs.structural_compare, 1, rel_path) # 0 THEN "structural"
    ELSE IF ExactLoop(rs.exact_match, 1, rel_path) THEN "exact"
    ELSE "non_empty"

get_comparison_mode(rs, rel_path) ==
    IF ExactLoop(rs.exact_match, 1, rel_path) THEN "exact"
    ELSE IF StructuralLoop(rs.structural_compare, 1, rel_path) # 0
        THEN "structural"
    ELSE "non_empty"

get_structural_comparator(rs, rel_path) ==
    LET i == StructuralLoop(rs.structural_compare, 1, rel_path)
    IN  IF i # 0 THEN rs.structural_compare[i].comparator ELSE "unknown"

(***************************************************************************)
(* Comparing one file                                                      *)
(***************************************************************************)

\* compare_exact that takes two empty files for a mismatch.
compare_exact_nonempty(b_content, c_content) ==
    b_content = c_content /\ ~SizeIsZero(b_content)

\* compare_exact on the decoded documents where both files decode.
compare_exact_decoded(b_content, c_content) ==
    IF LoadJson(b_content).st = "ok" /\ LoadJson(c_content).st = "ok"
    THEN LoadJson(b_content).doc = LoadJson(c_content).doc
    ELSE b_content = c_content

compare_exact(b_content, c_content) == b_content = c_content

\* apply_comparator that fails a file whose comparator it does not know.
apply_comparator_strict(comparator, b, c) ==
    CASE comparator = "database_connection" -> compare_database_connection(b, c)
      [] comparator = "dns_structure"       -> compare_dns_structure(b, c)
      [] comparator = "registry_exists"     -> compare_registry_exists(b, c)
      [] comparator = "http_status"         -> compare_http_status(b, c)
      [] comparator = "cluster_version"     -> compare_cluster_version(b, c)
      [] comparator = "analysis_results"    -> compare_analysis_results(b, c)
      [] OTHER                              -> "False"

\* The dispatch on the comparator's name, on two decoded documents.
apply_comparator(comparator, b, c) ==
    CASE comparator = "database_connection" -> compare_database_connection(b, c)
      [] comparator = "dns_structure"       -> compare_dns_structure(b, c)
      [] comparator = "registry_exists"     -> compare_registry_exists(b, c)
      [] comparator = "http_status"         -> compare_http_status(b, c)
      [] comparator = "cluster_version"     -> compare_cluster_version(b, c)
      [] comparator = "analysis_results"    -> compare_analysis_results(b, c)
      [] OTHER                              -> "True"

compare_structural(b_content, c_content, comparator) ==
    LET baseline_data == LoadJson(b_content)
        current_data  == LoadJson(c_content)
    IN  IF baseline_data.st = "raise" THEN baseline_data.error
        ELSE IF baseline_data.st = "bad" THEN "False"
        ELSE IF current_data.st = "raise" THEN current_data.error
        ELSE IF current_data.st = "bad" THEN "False"
        ELSE apply_comparator(comparator, baseline_data.doc, current_data.doc)

DotJson == <<".", "j", "s", "o", "n">>

check_non_empty(path, content) ==
    IF SizeIsZero(content) THEN "False"
    ELSE IF PathSuffix(path) = DotJson
        THEN CASE LoadJson(content).st = "raise" -> LoadJson(content).error
               [] LoadJson(content).st = "bad"   -> "False"
               [] OTHER                          -> "True"
    ELSE "True"

FreshResults ==
    [files_compared |-> 0, exact_matches |-> 0, structural_matches |-> 0,
     non_empty_checks |-> 0, files_different |-> 0,
     files_missing_in_current |-> 0, files_missing_in_baseline |-> 0,
     differences |-> <<>>, missing_in_current |-> <<>>,
     missing_in_baseline |-> <<>>]

\* record_diff that does not count the record of an error.
record_diff_error_uncounted(res, file, mode, reason) ==
    [res EXCEPT !.files_different = IF mode = "error" THEN @ ELSE @ + 1,
                !.differences = Append(@, [file |-> file, mode |-> mode,
                                           reason |-> reason])]

record_diff(res, file, mode, reason) ==
    [res EXCEPT !.files_different = @ + 1,
                !.differences = Append(@, [file |-> file, mode |-> mode,
                                           reason |-> reason])]

\* record_missing with the two locations taken for each other.
record_missing_swapped(res, location, file) ==
    IF location = "baseline"
    THEN [res EXCEPT !.files_missing_in_current = @ + 1,
                     !.missing_in_current = Append(@, file)]
    ELSE [res EXCEPT !.files_missing_in_baseline = @ + 1,
                     !.missing_in_baseline = Append(@, file)]

record_missing(res, location, file) ==
    IF location = "current"
    THEN [res EXCEPT !.files_missing_in_current = @ + 1,
                     !.missing_in_current = Append(@, file)]
    ELSE [res EXCEPT !.files_missing_in_baseline = @ + 1,
                     !.missing_in_baseline = Append(@, file)]

\* _compare_file on the files of path in the two trees: the results after it.
compare_file(res, rs, path, b_content, c_content) ==
    LET rel_path   == PathStr(path)
        counted    == [res EXCEPT !.files_compared = @ + 1]
        mode       == get_comparison_mode(rs, rel_path)
        comparator == get_structural_comparator(rs, rel_path)
        structural == compare_structural(b_content, c_content, comparator)
        non_empty  == check_non_empty(path, c_content)
        error(e)   == record_diff(counted, rel_path, "error",
                                  "Comparison error: " \o e)
    IN  IF mode = "exact"
        THEN IF compare_exact(b_content, c_content)
             THEN [counted EXCEPT !.exact_matches = @ + 1]
             ELSE record_diff(counted, rel_path, "exact", "Content mismatch")
        ELSE IF mode = "structural"
        THEN CASE structural = "True" ->
                      [counted EXCEPT !.structural_matches = @ + 1]
               [] structural = "False" ->
                      record_diff(counted, rel_path, "structural",
                          "Structural comparison failed (" \o comparator \o ")")
               [] OTHER -> error(structural)
        ELSE CASE non_empty = "True" ->
                      [counted EXCEPT !.non_empty_checks = @ + 1]
               [] non_empty = "False" ->
                      record_diff(counted, rel_path, "non_empty", "File is empty")
               [] OTHER -> error(non_empty)

(***************************************************************************)
(* BundleComparator.compare                                                *)
(***************************************************************************)

\* "*-previous.log"
optional_patterns ==
    << <<"*", "-", "p", "r", "e", "v", "i", "o", "u", "s", ".", "l", "o", "g">> >>

IsOptional(path) ==
    \E i \in 1..Len(optional_patterns) : PathMatch(path, optional_patterns[i])

\* One of the two loops over the sorted missing files, from the i-th on.
RECURSIVE MissingLoop(_, _, _, _)
MissingLoop(res, files, i, location) ==
    IF i > Len(files) THEN res
    ELSE IF IsOptional(files[i])
        THEN MissingLoop(res, files, i + 1, location)
    ELSE MissingLoop(record_missing(res, location, PathStr(files[i])),
                     files, i + 1, location)

\* The two loops over the missing files: the optional ones are skipped, the
\* others recorded, first those missing in current, then those missing in
\* baseline.
record_all_missing(res, b, c) ==
    LET baseline_files == DOMAIN b
        current_files  == DOMAIN c
        missing_in_current  == baseline_files \ current_files
        missing_in_baseline == current_files \ baseline_files
        afterCurrent == MissingLoop(res, SortedPaths(missing_in_current),
                                    1, "current")
    IN  MissingLoop(afterCurrent, SortedPaths(missing_in_baseline),
                    1, "baseline")

\* compare(baseline_bundle, current_bundle) up to the loop over the common
\* files; b and c are the two extracted trees.
Compare(b, c) ==
    LET common_files == DOMAIN b \cap DOMAIN c
    IN  /\ pc \in {"idle", "done"}
        /\ baseline' = b
        /\ current' = c
        /\ results' = record_all_missing(results, b, c)
        /\ todo' = SortedPaths(common_files)
        /\ calls' = calls + 1
        /\ pc' = "comparing"
        /\ UNCHANGED <<rules, ret, inp, out>>

\* One iteration of the loop over sorted(common_files).
CompareFile ==
    /\ pc = "comparing"
    /\ todo # <<>>
    /\ results' = compare_file(results, rules, Head(todo),
                               baseline[Head(todo)], current[Head(todo)])
    /\ todo' = Tail(todo)
    /\ UNCHANGED <<rules, baseline, current, pc, ret, calls, inp, out>>

\* no_regressions with a new file in current counted as a regression.
no_regressions_any_missing(res) ==
    ~(\/ res.files_different > 0
      \/ res.files_missing_in_current > 0
      \/ res.files_missing_in_baseline > 0)

\* not has_regressions, on the results at the end of compare.
no_regressions(res) ==
    LET has_regressions == \/ res.files_different > 0
                           \/ res.files_missing_in_current > 0
    IN  ~has_regressions

\* The end of compare: the value it returns.
Return ==
    /\ pc = "comparing"
    /\ todo = <<>>
    /\ ret' = no_regressions(results)
    /\ pc' = "done"
    /\ UNCHANGED <<rules, results, baseline, current, todo, calls, inp, out>>

(***************************************************************************)
(* The rule sets, paths and contents of the model                          *)
(***************************************************************************)

Pat_static_data == <<"s", "t", "a", "t", "i", "c", "-", "d", "a", "t", "a", ".",
                     "t", "x", "t", "/", "s", "t", "a", "t", "i", "c", "-",
                     "d", "a", "t", "a">>
Pat_version_yaml == <<"v", "e", "r", "s", "i", "o", "n", ".", "y", "a", "m", "l">>
Pat_postgres == <<"p", "o", "s", "t", "g", "r", "e", "s", "/", "*", ".", "j", "s", "o", "n">>
Pat_mysql    == <<"m", "y", "s", "q", "l", "/", "*", ".", "j", "s", "o", "n">>
Pat_mssql    == <<"m", "s", "s", "q", "l", "/", "*", ".", "j", "s", "o", "n">>
Pat_redis    == <<"r", "e", "d", "i", "s", "/", "*", ".", "j", "s", "o", "n">>
Pat_dns_debug == <<"d", "n", "s", "/", "d", "e", "b", "u", "g", ".", "j", "s", "o", "n">>
Pat_registry == <<"r", "e", "g", "i", "s", "t", "r", "y", "/", "*", ".", "j", "s", "o", "n">>
Pat_http     == <<"h", "t", "t", "p", "*", ".", "j", "s", "o", "n">>

Entry(pattern, comparator) == [pattern |-> pattern, comparator |-> comparator]

\* _get_default_rules()
DefaultRules ==
    RuleSet(<<Pat_static_data, Pat_version_yaml>>,
            <<Entry(Pat_postgres, "database_connection"),
              Entry(Pat_mysql, "database_connection"),
              Entry(Pat_mssql, "database_connection"),
              Entry(Pat_redis, "database_connection"),
              Entry(Pat_dns_debug, "dns_structure"),
              Entry(Pat_registry, "registry_exists"),
              Entry(Pat_http, "http_status")>>)

Pat_any_yaml == <<"*", ".", "y", "a", "m", "l">>
Pat_dns_any  == <<"d", "n", "s", "/", "*">>
Pat_any_json == <<"*", ".", "j", "s", "o", "n">>

\* A rule file whose tiers overlap on dns/debug.json and which names a
\* comparator the engine does not know.
CustomRules ==
    RuleSet(<<Pat_any_yaml, Pat_dns_any>>,
            <<Entry(Pat_dns_debug, "dns_structure"),
              Entry(Pat_any_json, "future_check")>>)

Path_version_yaml == << Pat_version_yaml >>
Path_dns_debug == << <<"d", "n", "s">>, <<"d", "e", "b", "u", "g", ".", "j", "s", "o", "n">> >>
Path_redis_c   == << <<"r", "e", "d", "i", "s">>, <<"c", ".", "j", "s", "o", "n">> >>
Path_previous  == << <<"l", "o", "g", "s">>,
                     <<"a", "p", "p", "-", "p", "r", "e", "v", "i", "o", "u", "s", ".", "l", "o", "g">> >>
Path_a_b    == << <<"a">>, <<"b">> >>
Path_a_dash_b == << <<"a", "-", "b">> >>

Paths == {Path_version_yaml, Path_dns_debug, Path_redis_c, Path_previous,
          Path_a_b, Path_a_dash_b}

Pair(k, v) == [k |-> k, v |-> v]

\* A DNS document that satisfies every check of dns_structure.
DnsOk ==
    JObj(<<Pair("query", JObj(<<Pair("kubernetes",
                                   JObj(<<Pair("address", JStr("10.0.0.1"))>>))>>)),
           Pair("kubeDNSService", JStr("x")),
           Pair("kubeDNSPods", JList(<<JStr("p1")>>))>>)

\* A document of the wrong shape for every comparator that reads fields.
QueryList == JList(<<JStr("query")>>)

\* A document that is one string, with "query" a part of it.
QueryText == JStr("a query")

Contents == {Empty, Json(DnsOk, "compact"), Json(QueryList, "compact")}

Absent == [kind |-> "absent"]

\* The tree that holds the files f gives a content.
Tree(f) == [p \in {q \in DOMAIN f : f[q] # Absent} |-> f[p]]

\* The largest number of paths in the two bundles of a call together.
MaxFiles == 2

Init ==
    /\ rules \in {DefaultRules, CustomRules}
    /\ results = FreshResults
    /\ baseline = <<>>
    /\ current = <<>>
    /\ todo = <<>>
    /\ pc = "idle"
    /\ ret = FALSE
    /\ calls = 0
    /\ inp = <<>>
    /\ out = <<>>

\* One compare call on a freshly constructed comparator.
CompareFresh ==
    /\ pc = "idle"
    /\ \E S \in SUBSET Paths :
          /\ Cardinality(S) <= MaxFiles
          /\ \E fb, fc \in [S -> Contents \cup {Absent}] :
                /\ \A p \in S : fb[p] # Absent \/ fc[p] # Absent
                /\ Compare(Tree(fb), Tree(fc))

Next == CompareFresh \/ CompareFile \/ Return

Spec == Init /\ [][Next]_vars

(***************************************************************************)
(* The classifier on its own: every rule set of up to MaxPatterns patterns *)
(* per tier over ClassifyPatterns, every path of ClassifyPaths             *)
(***************************************************************************)

Str_a_json   == <<"a", ".", "j", "s", "o", "n">>
Str_d_a_json == <<"d", "/", "a", ".", "j", "s", "o", "n">>
Str_a_yaml   == <<"a", ".", "y", "a", "m", "l">>
Str_d_b      == <<"d", "/", "b">>
Pat_a_any    == <<"a", ".", "*">>
Pat_d_any    == <<"d", "/", "*">>
\* "[ab]?json": a character class and a "?".
Pat_class_json == <<"[", "a", "b", "]", "?", "j", "s", "o", "n">>

ClassifyPaths == {Str_a_json, Str_d_a_json, Str_a_yaml, Str_d_b}

ClassifyPatterns == {Pat_any_json, Pat_d_any, Pat_a_any, Pat_class_json}

ClassifyComparators == {"dns_structure", "future_check"}

\* The longest pattern list of a tier.
MaxPatterns == 2

SeqsUpTo(S, n) == UNION {[1..k -> S] : k \in 0..n}

\* structural_compare is a mapping: no pattern occurs twice.
StructuralMappings ==
    {m \in SeqsUpTo([pattern : ClassifyPatterns, comparator : ClassifyComparators],
                    MaxPatterns) :
        \A i, j \in 1..Len(m) : m[i].pattern = m[j].pattern => i = j}

InitClassify ==
    /\ rules \in {RuleSet(e, m) : e \in SeqsUpTo(ClassifyPatterns, MaxPatterns),
                                  m \in StructuralMappings}
    /\ inp \in ClassifyPaths
    /\ out = <<>>
    /\ pc = "input"
    /\ results = FreshResults
    /\ baseline = <<>>
    /\ current = <<>>
    /\ todo = <<>>
    /\ ret = FALSE
    /\ calls = 0

\* _get_comparison_mode and _get_structural_comparator on rel_path inp.
Classify ==
    /\ pc = "input"
    /\ out' = [mode |-> get_comparison_mode(rules, inp),
               comparator |-> get_structural_comparator(rules, inp)]
    /\ pc' = "output"
    /\ UNCHANGED <<rules, results, baseline, current, todo, ret, calls, inp>>

NextClassify == Classify

SpecClassify == InitClassify /\ [][NextClassify]_vars

(***************************************************************************)
(* The comparators on their own, on the documents of each file family      *)
(***************************************************************************)

\* A member left out of an object.
Omit == [t |-> "omit", v |-> "omit"]

Present(member) == member.v.t # "omit"

\* The object of the members that are not left out.
Obj(members) == JObj(SelectSeq(members, Present))

\* Database probe results: isConnected absent, a boolean, null or a number,
\* beside an error text that varies; and two documents that are no object.
DbDocs ==
    {Obj(<<Pair("isConnected", x), Pair("error", e)>>) :
        x \in {Omit, JBool(TRUE), JBool(FALSE), JNull, JNum(0), JNum(1)},
        e \in {Omit, JStr("timeout"), JStr("refused")}}
    \cup {JList(<<>>), JNull}

DnsKubernetes ==
    {Omit, JNull, JObj(<<>>),
     JObj(<<Pair("address", JStr(""))>>),
     JObj(<<Pair("address", JStr("10.0.0.1"))>>)}

DnsNonResolvable ==
    {Omit, JNull, JObj(<<>>),
     JObj(<<Pair("address", JStr(""))>>),
     JObj(<<Pair("address", JStr("1.2.3.4"))>>)}

DnsQueries ==
    {Obj(<<Pair("kubernetes", k), Pair("nonResolvableDomain", n)>>) :
        k \in DnsKubernetes, n \in DnsNonResolvable}
    \cup {Omit, JList(<<JStr("kubernetes")>>), JStr("kubernetes"),
          JStr("a kubernetes b")}

\* DNS debug documents, and three documents that are no object.
DnsDocs ==
    {Obj(<<Pair("query", q), Pair("kubeDNSService", s), Pair("kubeDNSPods", pods)>>) :
        q \in DnsQueries,
        s \in {Omit, JStr(""), JStr("x")},
        pods \in {Omit, JList(<<>>), JList(<<JStr("p1")>>), JNum(5)}}
    \cup {QueryList, QueryText, JNull}

DnsBaselines ==
    {DnsOk, JObj(<<>>), JNull, QueryList,
     Obj(<<Pair("query", JObj(<<>>)), Pair("kubeDNSService", JStr("y"))>>)}

\* One image's entry: exists absent, true or false, beside a field the
\* comparator does not read; or no object at all.
ImageEntries ==
    {JObj(<<>>), JObj(<<Pair("exists", JBool(TRUE))>>),
     JObj(<<Pair("exists", JBool(FALSE))>>),
     JObj(<<Pair("exists", JBool(TRUE)), Pair("error", JStr("slow"))>>),
     JNum(5)}

\* Registry documents over the image names "a" and "b", in both key orders.
RegistryDocs ==
    {Obj(<<Pair("images", JObj(<<>>))>>), JObj(<<>>), JList(<<>>),
     Obj(<<Pair("images", JNull)>>)}
    \cup {Obj(<<Pair("images", JObj(<<Pair(n, x)>>))>>) :
             n \in {"a", "b"}, x \in ImageEntries}
    \cup {Obj(<<Pair("images", JObj(<<Pair(n[1], x), Pair(n[2], y)>>))>>) :
             n \in {<<"a", "b">>, <<"b", "a">>},
             x \in ImageEntries, y \in ImageEntries}

\* One analyzer result: a name (or none) and a severity; or no object: a
\* number, a string with "name" a part of it.
AnalysisItems ==
    {Obj(<<Pair("name", JStr("n1")), Pair("severity", JStr("error"))>>),
     Obj(<<Pair("name", JStr("n1")), Pair("severity", JStr("debug"))>>),
     Obj(<<Pair("name", JStr("n2")), Pair("severity", JStr("error"))>>),
     Obj(<<Pair("severity", JStr("error"))>>),
     JNum(5), JStr("rename")}

\* The longest list of analyzer results.
MaxItems == 2

\* Lists of records whose names are no strings: true and 1, which are one
\* dict key, and a list, which is none.
KeyedDocs ==
    {JList(<<Obj(<<Pair("name", JBool(TRUE))>>)>>),
     JList(<<Obj(<<Pair("name", JNum(1))>>)>>),
     JList(<<Obj(<<Pair("name", JBool(TRUE))>>),
             Obj(<<Pair("name", JNum(1))>>)>>),
     JList(<<Obj(<<Pair("name", JList(<<>>))>>),
             Obj(<<Pair("name", JStr("n2"))>>)>>),
     JList(<<Obj(<<Pair("name", JNull), Pair("severity", JStr("n2"))>>),
             Obj(<<Pair("name", JObj(<<>>)), Pair("severity", JList(<<>>))>>)>>)}

AnalysisDocs ==
    {JList(items) : items \in SeqsUpTo(AnalysisItems, MaxItems)}
    \cup {JObj(<<>>)} \cup KeyedDocs

HttpDocs ==
    {JObj(<<>>), JNull,
     Obj(<<Pair("response", JObj(<<Pair("status", JNum(1))>>))>>),
     Obj(<<Pair("response", JObj(<<Pair("status", JNum(0))>>))>>)}

VersionDocs ==
    {JObj(<<>>), JNull} \cup
    {Obj(<<Pair("info", Obj(<<Pair("major", JStr("1")), Pair("minor", m),
                              Pair("gitCommit", g)>>))>>) :
        m \in {Omit, JStr("28"), JStr("29")}, g \in {Omit, JStr("abc")}}

Input(comparator, B, C) ==
    {[comparator |-> comparator, b |-> b, c |-> c] : b \in B, c \in C}

InitComparator ==
    /\ inp \in Input("database_connection", DbDocs, DbDocs)
               \cup Input("dns_structure", DnsBaselines, DnsDocs)
               \cup Input("registry_exists", RegistryDocs, RegistryDocs)
               \cup Input("analysis_results", AnalysisDocs, AnalysisDocs)
               \cup Input("http_status", HttpDocs, HttpDocs)
               \cup Input("cluster_version", VersionDocs, VersionDocs)
               \cup Input("future_check", {JNull, DnsOk}, {JNull, QueryList})
    /\ out = <<>>
    /\ pc = "input"
    /\ rules = DefaultRules
    /\ results = FreshResults
    /\ baseline = <<>>
    /\ current = <<>>
    /\ todo = <<>>
    /\ ret = FALSE
    /\ calls = 0

\* The comparator named inp.comparator on the documents inp.b and inp.c.
ApplyComparator ==
    /\ pc = "input"
    /\ out' = apply_comparator(inp.comparator, inp.b, inp.c)
    /\ pc' = "output"
    /\ UNCHANGED <<rules, results, baseline, current, todo, ret, calls, inp>>

NextComparator == ApplyComparator

SpecComparator == InitComparator /\ [][NextComparator]_vars

(***************************************************************************)
(* compare on two bundles that hold one file each, at the same path, over  *)
(* a wider choice of contents                                              *)
(***************************************************************************)

Path_c_json == << <<"c", ".", "j", "s", "o", "n">> >>

FilePaths == Paths \cup {Path_c_json}

DbUp   == JObj(<<Pair("isConnected", JBool(TRUE))>>)
DbDown == JObj(<<Pair("isConnected", JBool(FALSE)), Pair("error", JStr("refused"))>>)

FileContents ==
    {Empty, Text(1), Text(2), Binary,
     Json(DnsOk, "compact"), Json(DnsOk, "indented"),
     Json(DbUp, "compact"), Json(DbUp, "indented"), Json(DbDown, "compact"),
     Json(QueryList, "compact"), Json(QueryText, "compact")}

\* One compare call on a fresh comparator, on bundles of one common file.
CompareOneFile ==
    /\ pc = "idle"
    /\ \E p \in FilePaths : \E b_content, c_content \in FileContents :
          Compare([q \in {p} |-> b_content], [q \in {p} |-> c_content])

NextFile == CompareOneFile \/ CompareFile \/ Return

SpecFile == Init /\ [][NextFile]_vars

(***************************************************************************)
(* compare on two bundles of up to MaxFiles common files whose contents    *)
(* are texts that are no JSON, bytes that are no text, and documents of    *)
(* the right and of the wrong shape                                        *)
(***************************************************************************)

ErrorPaths == {Path_dns_debug, Path_redis_c, Path_c_json, Path_a_b}

ErrorContents ==
    {Text(1), Binary, Json(DnsOk, "compact"), Json(QueryList, "compact")}

\* One compare call on a fresh comparator, every file in both bundles.
CompareErrors ==
    /\ pc = "idle"
    /\ \E S \in SUBSET ErrorPaths :
          /\ S # {}
          /\ Cardinality(S) <= MaxFiles
          /\ \E fb, fc \in [S -> ErrorContents] : Compare(fb, fc)

NextErrors == CompareErrors \/ CompareFile \/ Return

SpecErrors == Init /\ [][NextErrors]_vars

(***************************************************************************)
(* Properties                                                              *)
(***************************************************************************)

CommonFiles == DOMAIN baseline \cap DOMAIN current
OnlyInBaseline == DOMAIN baseline \ DOMAIN current
OnlyInCurrent == DOMAIN current \ DOMAIN baseline

EndsWith(s, suffix) ==
    /\ Len(s) >= Len(suffix)
    /\ SubSeq(s, Len(s) - Len(suffix) + 1, Len(s)) = suffix

\* The file name ends in "-previous.log": what "*-previous.log" asks for.
IsPreviousLog(path) ==
    EndsWith(PathName(path),
             <<"-", "p", "r", "e", "v", "i", "o", "u", "s", ".", "l", "o", "g">>)

Count(seq, x) == Cardinality({i \in 1..Len(seq) : seq[i] = x})

\* The difference records of a path.
DiffsOf(path) ==
    {i \in 1..Len(results.differences) :
        results.differences[i].file = PathStr(path)}

\* The path was compared in the given mode and recorded as different.
DifferentIn(path, mode) ==
    \E i \in DiffsOf(path) : results.differences[i].mode = mode

\* C1: a compare call on a fresh comparator returns True if and only if no
\* file was recorded as different and no file whose name does not end in
\* "-previous.log" is missing in current; the files that exist only in
\* current have no part in the returned value.
C1_PassIffNoRegression ==
    pc = "done" =>
        (ret <=> /\ results.differences = <<>>
                 /\ \A p \in OnlyInBaseline : IsPreviousLog(p))

\* A call that returned True although a file was new in current.
C1_Witness ==
    /\ pc = "done"
    /\ ret
    /\ results.files_compared > 0
    /\ \E p \in OnlyInCurrent : ~IsPreviousLog(p)

\* C2: a path present in one bundle only is in neither missing list when
\* its name ends in "-previous.log"; otherwise a baseline-only path is once
\* in missing_in_current and not in missing_in_baseline, a current-only
\* path once in missing_in_baseline and not in missing_in_current; the two
\* counts are the numbers of the paths so recorded.
C2_MissingRecorded ==
    pc \in {"comparing", "done"} =>
        /\ \A p \in OnlyInBaseline :
              /\ Count(results.missing_in_current, PathStr(p))
                    = IF IsPreviousLog(p) THEN 0 ELSE 1
              /\ Count(results.missing_in_baseline, PathStr(p)) = 0
        /\ \A p \in OnlyInCurrent :
              /\ Count(results.missing_in_baseline, PathStr(p))
                    = IF IsPreviousLog(p) THEN 0 ELSE 1
              /\ Count(results.missing_in_current, PathStr(p)) = 0
        /\ results.files_missing_in_current
              = Cardinality({p \in OnlyInBaseline : ~IsPreviousLog(p)})
        /\ results.files_missing_in_baseline
              = Cardinality({p \in OnlyInCurrent : ~IsPreviousLog(p)})
        /\ Len(results.missing_in_current) = results.files_missing_in_current
        /\ Len(results.missing_in_baseline) = results.files_missing_in_baseline

\* A finished call with a previous log missing from one bundle and another
\* file missing from current.
C2_Witness ==
    /\ pc = "done"
    /\ \E p \in OnlyInBaseline \cup OnlyInCurrent : IsPreviousLog(p)
    /\ \E p \in OnlyInBaseline : ~IsPreviousLog(p)

\* The exact_match patterns that match a path string.
ExactHits(rs, rel_path) ==
    {i \in 1..Len(rs.exact_match) :
        fnmatch(rel_path, rs.exact_match[i]) \/ rel_path = rs.exact_match[i]}

\* The structural_compare entries whose pattern matches a path string.
StructuralHits(rs, rel_path) ==
    {i \in 1..Len(rs.structural_compare) :
        fnmatch(rel_path, rs.structural_compare[i].pattern)}

Least(S) == CHOOSE i \in S : \A j \in S : i <= j

\* C3: a path is "exact" if any exact_match pattern matches it, whether or
\* not a structural_compare pattern matches too; otherwise "structural" if
\* a structural_compare pattern matches; otherwise "non_empty".  The
\* comparator is the one of the first structural_compare entry, in declared
\* order, whose pattern matches.
C3_Classification ==
    pc = "output" =>
        /\ out.mode = IF ExactHits(rules, inp) # {} THEN "exact"
                      ELSE IF StructuralHits(rules, inp) # {} THEN "structural"
                      ELSE "non_empty"
        /\ StructuralHits(rules, inp) # {} =>
              out.comparator
                  = rules.structural_compare[Least(StructuralHits(rules, inp))].comparator

\* A path classified "exact" by a pattern with a character class that a
\* structural pattern matches too, under rules where two structural
\* patterns with different comparators match it.
C3_Witness ==
    /\ pc = "output"
    /\ out.mode = "exact"
    /\ \E i \in ExactHits(rules, inp) : rules.exact_match[i] = Pat_class_json
    /\ \E i, j \in StructuralHits(rules, inp) :
          rules.structural_compare[i].comparator
              # rules.structural_compare[j].comparator

\* C4 as stated: comparing a bundle against an identical copy of itself
\* records no difference and no missing file.
C4_Idempotent ==
    pc = "done" /\ baseline = current =>
        /\ results.files_different = 0
        /\ results.differences = <<>>
        /\ results.missing_in_current = <<>>
        /\ results.missing_in_baseline = <<>>

\* C4, amended: comparing a bundle against an identical copy of itself
\* records no missing file in either direction and no difference in mode
\* "exact": every file classified "exact" is counted in exact_matches.
C4_IdenticalCopy ==
    pc = "done" /\ baseline = current =>
        /\ results.missing_in_current = <<>>
        /\ results.missing_in_baseline = <<>>
        /\ results.files_missing_in_current = 0
        /\ results.files_missing_in_baseline = 0
        /\ \A p \in CommonFiles : ~DifferentIn(p, "exact")
        /\ results.exact_matches
              = Cardinality({p \in CommonFiles : ExactHits(rules, PathStr(p)) # {}})

\* A bundle compared with its copy: one file matched exactly, another was
\* recorded as different.
C4_Witness ==
    /\ pc = "done"
    /\ baseline = current
    /\ results.exact_matches > 0
    /\ results.files_different > 0

\* C5: a common file classified "exact" is recorded as different, in mode
\* "exact", if and only if the two contents differ as bytes; when they are
\* equal it has no difference record and is counted in exact_matches.
C5_ExactIffBytesDiffer ==
    pc = "done" =>
        /\ \A p \in CommonFiles :
              ExactHits(rules, PathStr(p)) # {} =>
                  /\ DifferentIn(p, "exact") <=> baseline[p] # current[p]
                  /\ DiffsOf(p) # {} <=> baseline[p] # current[p]
        /\ results.exact_matches
              = Cardinality({p \in CommonFiles :
                                /\ ExactHits(rules, PathStr(p)) # {}
                                /\ baseline[p] = current[p]})

\* An exact file whose two contents are the same document in two layouts,
\* recorded as different.
C5_Witness ==
    /\ pc = "done"
    /\ \E p \in CommonFiles :
          /\ ExactHits(rules, PathStr(p)) # {}
          /\ baseline[p].kind = "json" /\ current[p].kind = "json"
          /\ baseline[p].doc = current[p].doc
          /\ DifferentIn(p, "exact")

\* The value at the end of a chain of keys, Omit when a key is absent or
\* the value it is looked up in is no object.
RECURSIVE Lookup(_, _)
Lookup(d, keys) ==
    IF keys = <<>> THEN d
    ELSE IF d.t = "obj" /\ Head(keys) \in Keys(d)
        THEN Lookup(Member(d, Head(keys)), Tail(keys))
    ELSE Omit

\* The value of a field, False when the field is absent.
OrFalse(x) == IF x.t = "omit" THEN JBool(FALSE) ELSE x

NonEmpty(x) == x.t # "omit" /\ Truthy(x)

AbsentOrEmpty(x) == x.t = "omit" \/ ~Truthy(x)

NonEmptyCollection(x) == x.t \in {"list", "obj", "str"} /\ Truthy(x)

\* The same document as far as isConnected goes.
SameConnected(d, e) == Lookup(d, <<"isConnected">>) = Lookup(e, <<"isConnected">>)

\* C6: on two objects, database_connection passes if and only if their
\* isConnected values are equal (as Python compares them: true equals 1,
\* false equals 0), an absent isConnected counting as false; the result is
\* the same for any two objects with these isConnected members, whatever
\* their other fields.
C6_DatabaseConnection ==
    (/\ pc = "output"
     /\ inp.comparator = "database_connection"
     /\ inp.b.t = "obj" /\ inp.c.t = "obj") =>
        /\ out = "True" <=> PyEq(OrFalse(Lookup(inp.b, <<"isConnected">>)),
                                 OrFalse(Lookup(inp.c, <<"isConnected">>)))
        /\ out \in {"True", "False"}
        /\ \A b2, c2 \in {d \in DbDocs : d.t = "obj"} :
              SameConnected(b2, inp.b) /\ SameConnected(c2, inp.c) =>
                  compare_database_connection(b2, c2) = out

\* isConnected absent on one side and false on the other, different error
\* texts: the comparator passed.
C6_Witness ==
    /\ pc = "output"
    /\ inp.comparator = "database_connection"
    /\ inp.b.t = "obj" /\ inp.c.t = "obj"
    /\ Lookup(inp.b, <<"isConnected">>) = Omit
    /\ Lookup(inp.c, <<"isConnected">>) = JBool(FALSE)
    /\ Lookup(inp.b, <<"error">>) # Lookup(inp.c, <<"error">>)
    /\ out = "True"

\* What dns_structure asks of the current document.
DnsHolds(c) ==
    /\ NonEmpty(Lookup(c, <<"query", "kubernetes", "address">>))
    /\ NonEmpty(Lookup(c, <<"kubeDNSService">>))
    /\ NonEmptyCollection(Lookup(c, <<"kubeDNSPods">>))
    /\ AbsentOrEmpty(Lookup(c, <<"query", "nonResolvableDomain", "address">>))

\* C7: dns_structure gives the same result for every baseline; where
\* query.nonResolvableDomain of the current document is absent or an
\* object, it passes if and only if query.kubernetes.address is non-empty,
\* kubeDNSService is non-empty, kubeDNSPods is a non-empty collection and
\* query.nonResolvableDomain.address is absent or empty.
C7_DnsStructure ==
    (pc = "output" /\ inp.comparator = "dns_structure") =>
        /\ \A b2 \in DnsBaselines \cup DnsDocs :
              compare_dns_structure(b2, inp.c) = out
        /\ Lookup(inp.c, <<"query", "nonResolvableDomain">>).t \in {"omit", "obj"}
              => (out = "True" <=> DnsHolds(inp.c))

\* A current document that passes against a baseline that is no DNS
\* document at all, its non-resolvable domain present with an empty address.
C7_Witness ==
    /\ pc = "output"
    /\ inp.comparator = "dns_structure"
    /\ inp.b = JNull
    /\ Lookup(inp.c, <<"query", "nonResolvableDomain", "address">>) = JStr("")
    /\ out = "True"

\* The images of a registry document, none when the field is absent.
ImagesOf(d) ==
    IF Lookup(d, <<"images">>).t = "omit" THEN JObj(<<>>)
    ELSE Lookup(d, <<"images">>)

\* A registry document: an object whose images, when present, is an object
\* of objects.
IsRegistryDoc(d) ==
    /\ d.t = "obj"
    /\ ImagesOf(d).t = "obj"
    /\ \A name \in Keys(ImagesOf(d)) : Member(ImagesOf(d), name).t = "obj"

ExistsOf(d, name) == OrFalse(Lookup(ImagesOf(d), <<name, "exists">>))

\* C8: on two registry documents, registry_exists passes if and only if
\* the two sets of image names are the same and every image has equal
\* exists values on both sides, an absent exists counting as false; the
\* order of the names has no part in it.
C8_RegistryExists ==
    (/\ pc = "output"
     /\ inp.comparator = "registry_exists"
     /\ IsRegistryDoc(inp.b) /\ IsRegistryDoc(inp.c)) =>
        (out = "True" <=>
            /\ Keys(ImagesOf(inp.b)) = Keys(ImagesOf(inp.c))
            /\ \A name \in Keys(ImagesOf(inp.b)) :
                  PyEq(ExistsOf(inp.b, name), ExistsOf(inp.c, name)))

\* Two documents with the same two images in different key order, passed.
C8_Witness ==
    /\ pc = "output"
    /\ inp.comparator = "registry_exists"
    /\ IsRegistryDoc(inp.b) /\ IsRegistryDoc(inp.c)
    /\ Len(ImagesOf(inp.b).v) = 2
    /\ Len(ImagesOf(inp.c).v) = 2
    /\ ImagesOf(inp.b).v[1].k = ImagesOf(inp.c).v[2].k
    /\ ImagesOf(inp.b).v[2].k = ImagesOf(inp.c).v[1].k
    /\ out = "True"

\* A list of analyzer results: every item an object.
IsAnalysisDoc(d) ==
    d.t = "list" /\ \A i \in 1..Len(d.v) : d.v[i].t = "obj"

\* set(results.keys()) of the mapping built from a list of records: the
\* names as dict keys (True and 1, False and 0 are one key); [raised] with
\* str(e) in [error] when a name is a list or an object, which no dict
\* takes as a key, the first such record deciding.
NamesOf(d) ==
    LET named      == {j \in 1..Len(d.v) : "name" \in Keys(d.v[j])}
        name(j)    == Lookup(d.v[j], <<"name">>)
        unhashable == {j \in named : ~Hashable(name(j))}
        first      == CHOOSE j \in unhashable : \A k \in unhashable : j <= k
    IN  IF unhashable # {}
        THEN [raised |-> TRUE,
              error  |-> "unhashable type: '" \o TypeName(name(first)) \o "'",
              names  |-> {}]
        ELSE [raised |-> FALSE, error |-> "",
              names  |-> {DictKey(name(j)) : j \in named}]

\* C9: on two lists of analyzer results, analysis_results passes if and
\* only if the two sets of analyzer names, taken as dict keys, are the
\* same; the severities have no part in it.  Where a name is a list or an
\* object there is no set of names: the comparator raises, the baseline
\* read first.
C9_AnalysisResults ==
    (/\ pc = "output"
     /\ inp.comparator = "analysis_results"
     /\ IsAnalysisDoc(inp.b) /\ IsAnalysisDoc(inp.c)) =>
        LET b_names == NamesOf(inp.b)
            c_names == NamesOf(inp.c)
        IN  /\ out = "True" <=> /\ ~b_names.raised
                                /\ ~c_names.raised
                                /\ b_names.names = c_names.names
            /\ IsError(out) <=> b_names.raised \/ c_names.raised
            /\ b_names.raised => out = b_names.error
            /\ ~b_names.raised /\ c_names.raised => out = c_names.error

\* An analyzer that went from "error" to "debug", passed.
C9_Witness ==
    /\ pc = "output"
    /\ inp.comparator = "analysis_results"
    /\ IsAnalysisDoc(inp.b) /\ IsAnalysisDoc(inp.c)
    /\ \E i \in 1..Len(inp.b.v), j \in 1..Len(inp.c.v) :
          /\ Lookup(inp.b.v[i], <<"name">>) = JStr("n1")
          /\ Lookup(inp.c.v[j], <<"name">>) = JStr("n1")
          /\ Lookup(inp.b.v[i], <<"severity">>) = JStr("error")
          /\ Lookup(inp.c.v[j], <<"severity">>) = JStr("debug")
          /\ Len(inp.b.v) = 1 /\ Len(inp.c.v) = 1
    /\ out = "True"

KnownComparators ==
    {"database_connection", "dns_structure", "registry_exists", "http_status",
     "cluster_version", "analysis_results"}

\* The first matching structural pattern of a file names no known comparator.
UnknownStructural(path) ==
    LET hits == StructuralHits(rules, PathStr(path))
    IN  /\ ExactHits(rules, PathStr(path)) = {}
        /\ hits # {}
        /\ rules.structural_compare[Least(hits)].comparator \notin KnownComparators

\* C10: a common file whose first matching structural pattern names a
\* comparator that is none of the six known ones, both of its contents
\* decoding as JSON, has no difference record and is counted in
\* structural_matches, the one file compared.
C10_UnknownComparatorPasses ==
    pc = "done" =>
        \A p \in CommonFiles :
            (/\ UnknownStructural(p)
             /\ baseline[p].kind = "json" /\ current[p].kind = "json") =>
                /\ DiffsOf(p) = {}
                /\ results.differences = <<>>
                /\ results.structural_matches = 1
                /\ results.files_compared = 1

\* Such a file with two different documents.
C10_Witness ==
    /\ pc = "done"
    /\ \E p \in CommonFiles :
          /\ UnknownStructural(p)
          /\ baseline[p].kind = "json" /\ current[p].kind = "json"
          /\ baseline[p].doc # current[p].doc
          /\ results.structural_matches = 1

\* The results of _compare_file on the files of a path, by itself, on fresh
\* results.
Alone(path) ==
    compare_file(FreshResults, rules, path, baseline[path], current[path])

\* The difference records of a path, in the order they were made.
RecordsOf(path) ==
    SelectSeq(results.differences, LAMBDA r : r.file = PathStr(path))

\* Comparing the path raises: bytes that are no text where the file is
\* decoded, or a document of a shape the comparator cannot read.
Raises(path) ==
    LET mode == get_comparison_mode(rules, PathStr(path))
    IN  CASE mode = "structural" ->
                 IsError(compare_structural(baseline[path], current[path],
                     get_structural_comparator(rules, PathStr(path))))
          [] mode = "non_empty" ->
                 IsError(check_non_empty(path, current[path]))
          [] OTHER -> FALSE

\* A structural file where the first of the two files that does not load,
\* the baseline being loaded first, is a text that is no JSON document.
DecodeFails(path) ==
    /\ \/ LoadJson(baseline[path]).st = "bad"
       \/ /\ LoadJson(baseline[path]).st = "ok"
          /\ LoadJson(current[path]).st = "bad"
    /\ get_comparison_mode(rules, PathStr(path)) = "structural"

\* At the end of a call every common file has been compared (the pass was
\* not cut short) and has the records and the count it has when it is
\* compared by itself.
ErrorsStayLocal ==
    pc = "done" =>
        LET alone == {<<p, Alone(p)>> : p \in CommonFiles}
        IN  /\ results.files_compared = Cardinality(CommonFiles)
            /\ \A v \in alone : RecordsOf(v[1]) = v[2].differences
            /\ results.exact_matches
                  = Cardinality({v \in alone : v[2].exact_matches = 1})
            /\ results.structural_matches
                  = Cardinality({v \in alone : v[2].structural_matches = 1})
            /\ results.non_empty_checks
                  = Cardinality({v \in alone : v[2].non_empty_checks = 1})
            /\ results.files_different
                  = Cardinality({v \in alone : v[2].files_different = 1})

\* C11: an error while one common file is compared stays with that file
\* and becomes one error verdict.  At the end of the call every common file
\* has been compared and has the records and the count it has when it is
\* compared by itself; a file whose comparison raised, and a structural
\* file one of whose two files failed to decode as JSON, has exactly one
\* record, in mode "error".
C11_ErrorsAreLocal ==
    /\ ErrorsStayLocal
    /\ pc = "done" =>
          \A p \in CommonFiles :
              Raises(p) \/ DecodeFails(p) =>
                  /\ Len(RecordsOf(p)) = 1
                  /\ RecordsOf(p)[1].mode = "error"

\* A finished call on two files: the first one compared failed to decode
\* as JSON and has a record that is not in mode "error", the second one
\* raised and has its record in mode "error".
C11_Witness ==
    /\ pc = "done"
    /\ \E p, q \in CommonFiles :
          /\ PartsLess(p, q)
          /\ DecodeFails(p)
          /\ Len(RecordsOf(p)) = 1
          /\ RecordsOf(p)[1].mode = "structural"
          /\ Raises(q)
          /\ Len(RecordsOf(q)) = 1
          /\ RecordsOf(q)[1].mode = "error"
          /\ results.files_compared = 2

(***************************************************************************)
(* Several compare calls on one BundleComparator                           *)
(***************************************************************************)

ReusePaths == {Path_version_yaml, Path_a_b}

ReuseContents == {Empty, Text(1), Text(2)}

\* The largest number of compare calls on one comparator.
MaxCalls == 2

\* A compare call on the comparator as the calls before have left it, on
\* two bundles that hold at most one file each, at the same path.
CompareReuse ==
    /\ calls < MaxCalls
    /\ \E p \in ReusePaths : \E fb, fc \in [{p} -> ReuseContents \cup {Absent}] :
          /\ fb[p] # Absent \/ fc[p] # Absent
          /\ Compare(Tree(fb), Tree(fc))

NextReuse == CompareReuse \/ CompareFile \/ Return

SpecReuse == Init /\ [][NextReuse]_vars

\* The loop over the sorted common files, run to its end.
RECURSIVE CommonLoop(_, _, _, _, _)
CommonLoop(res, rs, files, b, c) ==
    IF files = <<>> THEN res
    ELSE CommonLoop(compare_file(res, rs, Head(files), b[Head(files)],
                                 c[Head(files)]),
                    rs, Tail(files), b, c)

\* The results of one compare call on a newly constructed comparator.
FreshRun(rs, b, c) ==
    CommonLoop(record_all_missing(FreshResults, b, c), rs,
               SortedPaths(DOMAIN b \cap DOMAIN c), b, c)

\* C12: after any sequence of compare calls on one comparator, the counts,
\* the lists and the returned value of the latest call are those of a call
\* on a newly constructed comparator with the same two bundles and rules.
C12_ResultPerCall ==
    pc = "done" =>
        /\ results = FreshRun(rules, baseline, current)
        /\ ret = no_regressions(FreshRun(rules, baseline, current))

\* A second call, on two bundles that a new comparator passes, that
\* returned False.
C12_Witness ==
    /\ pc = "done"
    /\ calls = 2
    /\ no_regressions(FreshRun(rules, baseline, current))
    /\ ~ret

\* The path is classified "structural".
IsStructural(path) ==
    /\ ExactHits(rules, PathStr(path)) = {}
    /\ StructuralHits(rules, PathStr(path)) # {}

\* The comparator of a structural path.
ComparatorOf(path) ==
    rules.structural_compare[Least(StructuralHits(rules, PathStr(path)))].comparator

\* How the loading of the two files of a path ends, the baseline first:
\* "bad" at a text that is no JSON document, "raise" at bytes that are no
\* text, "ok" when both load.
FirstFailure(path) ==
    IF LoadJson(baseline[path]).st # "ok" THEN LoadJson(baseline[path]).st
    ELSE LoadJson(current[path]).st

\* C13: a structural file one of whose two files fails to decode as JSON
\* has one record, in mode "error", which is not the record of a failed
\* comparator.
C13_DecodeFailureIsError ==
    pc = "done" =>
        \A p \in CommonFiles :
            IsStructural(p) /\ FirstFailure(p) # "ok" =>
                /\ Len(RecordsOf(p)) = 1
                /\ RecordsOf(p)[1].mode = "error"
                /\ RecordsOf(p)[1].reason
                      # "Structural comparison failed (" \o ComparatorOf(p) \o ")"

\* A structural file whose baseline is a JSON document and whose current
\* file is a text that is none, recorded in mode "structural" with the
\* reason of a failed comparator.
C13_Witness ==
    /\ pc = "done"
    /\ \E p \in CommonFiles :
          /\ IsStructural(p)
          /\ baseline[p].kind = "json"
          /\ current[p].kind = "text"
          /\ RecordsOf(p)
                = <<[file |-> PathStr(p), mode |-> "structural",
                     reason |-> "Structural comparison failed ("
                                \o ComparatorOf(p) \o ")"]>>

\* C14: in one compare call on a new comparator, after each common file
\* has been processed files_compared is the sum of exact_matches,
\* structural_matches, non_empty_checks and files_different and is the
\* number of common files processed so far; at the end it is the number of
\* common paths; the lengths of differences, missing_in_current and
\* missing_in_baseline are files_different, files_missing_in_current and
\* files_missing_in_baseline.
C14_OneVerdictPerFile ==
    pc \in {"comparing", "done"} =>
        /\ results.files_compared
              = results.exact_matches + results.structural_matches
                + results.non_empty_checks + results.files_different
        /\ results.files_compared = Cardinality(CommonFiles) - Len(todo)
        /\ pc = "done" => results.files_compared = Cardinality(CommonFiles)
        /\ Len(results.differences) = results.files_different
        /\ Len(results.missing_in_current) = results.files_missing_in_current
        /\ Len(results.missing_in_baseline) = results.files_missing_in_baseline

\* In the middle of a pass: one file processed and recorded as raising an
\* error, another still to come.
C14_Witness ==
    /\ pc = "comparing"
    /\ todo # <<>>
    /\ results.files_compared = 1
    /\ results.files_different = 1
    /\ results.differences[1].mode = "error"

\* The path is classified "non_empty": no pattern of either tier matches.
IsNonEmptyMode(path) ==
    /\ ExactHits(rules, PathStr(path)) = {}
    /\ StructuralHits(rules, PathStr(path)) = {}

\* What the non_empty check asks of the current file: a size that is not
\* zero and, under the extension .json, a text that is a JSON document.
NonEmptyHolds(path) ==
    /\ ~SizeIsZero(current[path])
    /\ PathSuffix(path) = DotJson => LoadJson(current[path]).st = "ok"

\* C15: a common file classified "non_empty" is counted in
\* non_empty_checks, with no record, if and only if the current file has a
\* size that is not zero and, under the extension .json, parses as JSON;
\* otherwise it has one record in mode "non_empty" whose reason names the
\* condition that failed: it says the file is empty only when it is.
C15_NonEmptyVerdict ==
    pc = "done" =>
        \A p \in CommonFiles :
            IsNonEmptyMode(p) =>
                IF NonEmptyHolds(p)
                THEN /\ RecordsOf(p) = <<>>
                     /\ results.non_empty_checks = 1
                ELSE /\ results.non_empty_checks = 0
                     /\ Len(RecordsOf(p)) = 1
                     /\ RecordsOf(p)[1].mode = "non_empty"
                     /\ RecordsOf(p)[1].reason = "File is empty"
                            <=> SizeIsZero(current[p])

\* A .json file under the non_empty check whose current file is a text
\* that is no JSON document, recorded with the reason "File is empty".
C15_Witness ==
    /\ pc = "done"
    /\ \E p \in CommonFiles :
          /\ IsNonEmptyMode(p)
          /\ PathSuffix(p) = DotJson
          /\ current[p].kind = "text"
          /\ baseline[p].kind = "json"
          /\ RecordsOf(p) = <<[file |-> PathStr(p), mode |-> "non_empty",
                               reason |-> "File is empty"]>>

\* The components of a path string: the string cut at every "/".
RECURSIVE SplitFrom(_, _, _)
SplitFrom(s, i, acc) ==
    IF i > Len(s) THEN <<acc>>
    ELSE IF s[i] = "/" THEN <<acc>> \o SplitFrom(s, i + 1, <<>>)
    ELSE SplitFrom(s, i + 1, Append(acc, s[i]))

Parts(s) == SplitFrom(s, 1, <<>>)

\* The 'file' fields of the differences, in the order of the list.
DifferenceFiles ==
    [i \in 1..Len(results.differences) |-> results.differences[i].file]

AscendingStrings(seq) ==
    \A i, j \in 1..Len(seq) : i < j => StrLess(seq[i], seq[j])

AscendingPaths(seq) ==
    \A i, j \in 1..Len(seq) : i < j => PartsLess(Parts(seq[i]), Parts(seq[j]))

\* Every missing file that is to be recorded has been recorded.
MissingComplete ==
    /\ Len(results.missing_in_current)
          = Cardinality({p \in OnlyInBaseline : ~IsPreviousLog(p)})
    /\ Len(results.missing_in_baseline)
          = Cardinality({p \in OnlyInCurrent : ~IsPreviousLog(p)})

\* C16 as stated: the common files are processed after all the missing
\* files have been recorded, and the files of the differences and the
\* entries of each missing list are in ascending order of the path strings,
\* character by character.
C16_StringOrder ==
    pc \in {"comparing", "done"} =>
        /\ MissingComplete
        /\ AscendingStrings(DifferenceFiles)
        /\ AscendingStrings(results.missing_in_current)
        /\ AscendingStrings(results.missing_in_baseline)

\* C16, amended: the common files are processed after all the missing
\* files have been recorded, and the files of the differences and the
\* entries of each missing list are in ascending order of the paths
\* compared component by component (a path is the list of its names); a
\* file still to be processed comes after every file of the differences.
C16_PathOrder ==
    pc \in {"comparing", "done"} =>
        /\ MissingComplete
        /\ AscendingPaths(DifferenceFiles)
        /\ AscendingPaths(results.missing_in_current)
        /\ AscendingPaths(results.missing_in_baseline)
        /\ \A i \in 1..Len(DifferenceFiles), j \in 1..Len(todo) :
              PartsLess(Parts(DifferenceFiles[i]), todo[j])

\* A finished call with a/b recorded before a-b, against the order of the
\* two strings.
C16_Witness ==
    /\ pc = "done"
    /\ Len(results.differences) = 2
    /\ DifferenceFiles[1] = PathStr(Path_a_b)
    /\ DifferenceFiles[2] = PathStr(Path_a_dash_b)
    /\ StrLess(DifferenceFiles[2], DifferenceFiles[1])

=============================================================================
